---- MODULE Spec2Model ----
(***************************************************************************)
(* A model of tiledb/sm/buffer/buffer.cc: BufferBase, the owning buffer    *)
(* OwningMemoryBuffer<Alloc> ("Buffer"), ConstBuffer and PreallocatedBuffer.*)
(*                                                                         *)
(* Memory is modelled explicitly.  A pointer is NULL, EXT (the start of    *)
(* one region of memory owned by the caller) or the identity of the        *)
(* storage held by some std::vector.  Every memcpy is checked against the  *)
(* live elements of the storage it touches; a copy that leaves them is     *)
(* undefined behaviour and ends the run with status "ub".                  *)
(*                                                                         *)
(* uint64_t arithmetic is modelled at a reduced width of WordBits bits, so *)
(* that wrap-around is reachable: every +, - and * of the source is taken  *)
(* modulo 2^WordBits.                                                      *)
(***************************************************************************)
EXTENDS Integers, Sequences, FiniteSets, TLC

VARIABLES
    buf,      \* the OwningMemoryBuffer instances, by name
    cbuf,     \* one ConstBuffer instance
    pbuf,     \* one PreallocatedBuffer instance
    ext,      \* the bytes of the caller-owned memory region
    last,     \* the last call made: operation, outcome, bytes handed to the caller
    written,  \* history: the bytes the successful write(raw, n) calls were given
    grown     \* history: how many of those calls changed alloced_size()

vars == <<buf, cbuf, pbuf, ext, last, written, grown>>

(***************************************************************************)
(* Bounds and constants                                                    *)
(***************************************************************************)
WordBits == 4               \* width of the model's uint64_t
MaxAlloc == 4               \* bytes the allocator can give one vector
NULL == 0                   \* nullptr
EXT == 9                    \* address of the caller-owned region

Modulus == 2 ^ WordBits
MaxU == Modulus - 1         \* the model's UINT64_MAX
Word == 0 .. MaxU

Bufs == {1, 2}              \* names of the OwningMemoryBuffer instances
Allocs == {1, 2}            \* allocators (memory resources) to choose from
DefaultAlloc == CHOOSE a \in Allocs : \A x \in Allocs : a <= x
ExtInit == <<1, 2, 1>>      \* initial content of the caller-owned region

Add(a, b) == (a + b) % Modulus
Sub(a, b) == (a - b + Modulus) % Modulus
Mul2(a) == (2 * a) % Modulus
Max(a, b) == IF a >= b THEN a ELSE b
Min(a, b) == IF a <= b THEN a ELSE b

(***************************************************************************)
(* Memory                                                                  *)
(***************************************************************************)
\* A std::vector: the address of its storage, its elements, the capacity of the
\* storage, its allocator.
EmptyVec(a) == [id |-> NULL, bytes |-> <<>>, cap |-> 0, alloc |-> a]

\* A slot that holds no constructed OwningMemoryBuffer.
NoBuffer ==
    [live |-> FALSE, data |-> NULL, size |-> 0, offset |-> 0,
     vec |-> EmptyVec(DefaultAlloc), owns_data |-> FALSE, preallocated |-> FALSE]

\* A slot that holds no constructed ConstBuffer / PreallocatedBuffer.
NoCursor == [live |-> FALSE, data |-> NULL, size |-> 0, offset |-> 0]

Zeros(n) == [i \in 1 .. n |-> 0]
Fill(n, val) == [i \in 1 .. n |-> val]

\* s with the bytes p stored from position off on.
Splice(s, off, p) ==
    [i \in 1 .. Len(s) |-> IF i > off /\ i <= off + Len(p) THEN p[i - off] ELSE s[i]]

\* The live bytes of the storage that starts at address p.
Storage(bufs, e, p) ==
    IF p = EXT THEN e
    ELSE IF p # NULL /\ \E s \in Bufs : bufs[s].live /\ bufs[s].vec.id = p
         THEN bufs[CHOOSE s \in Bufs : bufs[s].live /\ bufs[s].vec.id = p].vec.bytes
         ELSE <<>>

\* Whether [p + off, p + off + n) lies inside live storage (memcpy's precondition).
InBounds(bufs, e, p, off, n) ==
    n = 0 \/ (p # NULL /\ off + n <= Len(Storage(bufs, e, p)))

Load(bufs, e, p, off, n) == SubSeq(Storage(bufs, e, p), off + 1, off + n)

StoreBufs(bufs, p, off, payload) ==
    [s \in Bufs |->
        IF bufs[s].live /\ p # NULL /\ bufs[s].vec.id = p
        THEN [bufs[s] EXCEPT !.vec.bytes = Splice(@, off, payload)]
        ELSE bufs[s]]

StoreExt(e, p, off, payload) == IF p = EXT THEN Splice(e, off, payload) ELSE e

\* The address a new allocation made for instance b gets: one that no other
\* object holds or points to.
FreshId(bufs, c, b) ==
    LET used == {bufs[s].vec.id : s \in Bufs \ {b}}
                \cup {bufs[s].data : s \in Bufs \ {b}} \cup {c.data}
        free == {i \in 1 .. (2 * Cardinality(Bufs) + 1) : i \notin used}
    IN  CHOOSE i \in free : \A j \in free : i <= j

(***************************************************************************)
(* BufferBase                                                              *)
(***************************************************************************)
\* BufferBase::reset_offset
reset_offset(c) == [c EXCEPT !.offset = 0]

\* BufferBase::assert_offset_is_valid
assert_offset_is_valid(c, o) == ~(o > c.size)

\* set_offset as it would be without assert_offset_is_valid.
set_offset_Unchecked(c, o) == [st |-> "ok", c |-> [c EXCEPT !.offset = o]]

\* BufferBase::set_offset
set_offset(c, o) ==
    IF ~assert_offset_is_valid(c, o)
    THEN [st |-> "out_of_range", c |-> c]
    ELSE [st |-> "ok", c |-> [c EXCEPT !.offset = o]]

\* advance_offset as it would be if it compared the wrapped sum offset + n
\* with size.
advance_offset_WrappedSum(c, n) ==
    IF Add(c.offset, n) >= c.size
    THEN [c EXCEPT !.offset = c.size]
    ELSE [c EXCEPT !.offset = Add(c.offset, n)]

\* BufferBase::advance_offset
advance_offset(c, n) ==
    IF n >= Sub(c.size, c.offset)
    THEN [c EXCEPT !.offset = c.size]
    ELSE [c EXCEPT !.offset = Add(c.offset, n)]

\* BufferBase::end
end(c) == c.offset = c.size

\* read as it would be without its test of the bytes left.
read_NoBoundTest(bufs, e, c, n) ==
    IF ~InBounds(bufs, e, c.data, c.offset, n)
    THEN [st |-> "ub", c |-> c, bytes |-> <<>>]
    ELSE [st |-> "ok", c |-> [c EXCEPT !.offset = Add(c.offset, n)],
          bytes |-> Load(bufs, e, c.data, c.offset, n)]

\* BufferBase::read(void*, uint64_t): the cursor afterwards and the bytes copied.
read(bufs, e, c, n) ==
    IF n > Sub(c.size, c.offset)
    THEN [st |-> "error", c |-> c, bytes |-> <<>>]
    ELSE IF ~InBounds(bufs, e, c.data, c.offset, n)
    THEN [st |-> "ub", c |-> c, bytes |-> <<>>]
    ELSE [st |-> "ok", c |-> [c EXCEPT !.offset = Add(c.offset, n)],
          bytes |-> Load(bufs, e, c.data, c.offset, n)]

\* BufferBase::read(void*, uint64_t offset, uint64_t)
read_at(bufs, e, c, off, n) ==
    IF n > Sub(c.size, off)
    THEN [st |-> "error", c |-> c, bytes |-> <<>>]
    ELSE IF ~InBounds(bufs, e, c.data, off, n)
    THEN [st |-> "ub", c |-> c, bytes |-> <<>>]
    ELSE [st |-> "ok", c |-> c, bytes |-> Load(bufs, e, c.data, off, n)]

(***************************************************************************)
(* OwningMemoryBuffer                                                      *)
(***************************************************************************)
\* OwningMemoryBuffer::alloced_size
alloced_size(t) == Len(t.vec.bytes)

\* OwningMemoryBuffer::free_space, and the assertion it makes first
free_space_assertion(t) == alloced_size(t) >= t.size
free_space(t) == Sub(alloced_size(t), t.size)

\* realloc as it would be if the grown vector did not keep its elements.
realloc_LosesBytes(t, n, fresh) ==
    IF ~t.owns_data THEN [st |-> "error", b |-> t]
    ELSE IF n > alloced_size(t)
    THEN IF n > MaxAlloc THEN [st |-> "bad_alloc", b |-> t]
         ELSE LET id == IF n <= t.vec.cap THEN t.vec.id ELSE fresh
              IN  [st |-> "ok",
                   b |-> [t EXCEPT !.vec.bytes = Zeros(n),
                                   !.vec.id = id,
                                   !.vec.cap = Max(@, n),
                                   !.data = id]]
    ELSE [st |-> "ok", b |-> t]

\* OwningMemoryBuffer::realloc.  A request the allocator cannot meet ends in
\* "bad_alloc" (vec_.resize throws before anything is changed).  vec_.resize
\* keeps the storage when the new size fits its capacity (a cleared vector keeps
\* its storage) and moves to new storage otherwise.
realloc(t, n, fresh) ==
    IF ~t.owns_data THEN [st |-> "error", b |-> t]
    ELSE IF n > alloced_size(t)
    THEN IF n > MaxAlloc THEN [st |-> "bad_alloc", b |-> t]
         ELSE LET id == IF n <= t.vec.cap THEN t.vec.id ELSE fresh
              IN  [st |-> "ok",
                   b |-> [t EXCEPT !.vec.bytes = @ \o Zeros(n - Len(@)),
                                   !.vec.id = id,
                                   !.vec.cap = Max(@, n),
                                   !.data = id]]
    ELSE [st |-> "ok", b |-> t]

\* The loop of ensure_alloced_size: the first value >= n reached by doubling c
\* modulo 2^WordBits, or -1 when the loop never ends (c has become 0).
RECURSIVE GrowTo(_, _)
GrowTo(c, n) ==
    IF ~(c < n) THEN c
    ELSE IF c = 0 THEN 0 - 1
    ELSE GrowTo(Mul2(c), n)

\* ensure_alloced_size as it would be if it grew to the exact size asked for.
ensure_alloced_size_ExactFit(t, n, fresh) ==
    IF t.preallocated /\ n > alloced_size(t) THEN [st |-> "throw", b |-> t]
    ELSE IF t.preallocated \/ alloced_size(t) >= n THEN [st |-> "ok", b |-> t]
    ELSE realloc(t, n, fresh)

\* OwningMemoryBuffer::ensure_alloced_size
ensure_alloced_size(t, n, fresh) ==
    IF t.preallocated /\ n > alloced_size(t) THEN [st |-> "throw", b |-> t]
    ELSE IF t.preallocated \/ alloced_size(t) >= n THEN [st |-> "ok", b |-> t]
    ELSE LET new_alloc_size == GrowTo(IF alloced_size(t) = 0 THEN n ELSE alloced_size(t), n)
         IN  IF new_alloc_size < 0 THEN [st |-> "hang", b |-> t]
             ELSE realloc(t, new_alloc_size, fresh)

\* The outcome of one call: its status, the memory and the objects afterwards,
\* and the bytes stored into the caller's destination.
Result(st, bufs, e, c, d) == [st |-> st, buf |-> bufs, ext |-> e, cbuf |-> c, dst |-> d]
Unchanged(st) == Result(st, buf, ext, cbuf, <<>>)

\* OwningMemoryBuffer(const allocator_type&)
ctor_empty(b, a) ==
    Result("ok",
           [buf EXCEPT ![b] = [live |-> TRUE, data |-> NULL, size |-> 0, offset |-> 0,
                               vec |-> EmptyVec(a), owns_data |-> TRUE,
                               preallocated |-> FALSE]],
           ext, cbuf, <<>>)

\* OwningMemoryBuffer(uint64_t size, const allocator_type&)
ctor_prealloc(b, n, a) ==
    LET t0 == [live |-> TRUE, data |-> NULL, size |-> n, offset |-> 0,
               vec |-> EmptyVec(a), owns_data |-> TRUE, preallocated |-> TRUE]
        e == ensure_alloced_size(t0, t0.size, FreshId(buf, cbuf, b))
    IN  IF e.st # "ok" THEN Unchanged(e.st)
        ELSE Result("ok", [buf EXCEPT ![b] = [e.b EXCEPT !.size = 0]], ext, cbuf, <<>>)

\* OwningMemoryBuffer(void* data, uint64_t size, const allocator_type&)
ctor_wrap(b, p, n) ==
    Result("ok",
           [buf EXCEPT ![b] = [live |-> TRUE, data |-> p, size |-> n, offset |-> 0,
                               vec |-> EmptyVec(DefaultAlloc), owns_data |-> FALSE,
                               preallocated |-> FALSE]],
           ext, cbuf, <<>>)

\* ~OwningMemoryBuffer: the vector and its storage go away.
dtor(b) == Result("ok", [buf EXCEPT ![b] = NoBuffer], ext, cbuf, <<>>)

\* OwningMemoryBuffer::advance_size.  assert(owns_data_) stops a build with
\* assertions; a build without them goes on.
advance_size(b, n, asserts) ==
    IF asserts /\ ~buf[b].owns_data THEN Unchanged("abort")
    ELSE Result("ok", [buf EXCEPT ![b].size = Add(@, n)], ext, cbuf, <<>>)

\* OwningMemoryBuffer::clear
clear(b) ==
    LET t == buf[b]
        v == IF t.data # NULL /\ t.owns_data THEN [t.vec EXCEPT !.bytes = <<>>] ELSE t.vec
    IN  Result("ok",
               [buf EXCEPT ![b] = [t EXCEPT !.vec = v, !.data = NULL,
                                            !.offset = 0, !.size = 0]],
               ext, cbuf, <<>>)

\* OwningMemoryBuffer::reset_size
reset_size(b) ==
    Result("ok", [buf EXCEPT ![b].offset = 0, ![b].size = 0], ext, cbuf, <<>>)

\* OwningMemoryBuffer::set_size
set_size(b, n) == Result("ok", [buf EXCEPT ![b].size = n], ext, cbuf, <<>>)

\* OwningMemoryBuffer::realloc, as a call
realloc_call(b, n) ==
    LET r == realloc(buf[b], n, FreshId(buf, cbuf, b))
    IN  Result(r.st, [buf EXCEPT ![b] = r.b], ext, cbuf, <<>>)

\* OwningMemoryBuffer::ensure_alloced_size, as a call
ensure_alloced_size_call(b, n) ==
    LET r == ensure_alloced_size(buf[b], n, FreshId(buf, cbuf, b))
    IN  Result(r.st, [buf EXCEPT ![b] = r.b], ext, cbuf, <<>>)

\* memcpy of payload to the destination data_ + off of instance b, within bufs;
\* then offset and size are set as the caller says.
StoreAt(bufs, b, off, payload, new_offset, new_size, c) ==
    LET p == bufs[b].data IN
    IF ~InBounds(bufs, ext, p, off, Len(payload)) THEN Unchanged("ub")
    ELSE LET bufs2 == StoreBufs(bufs, p, off, payload)
         IN  Result("ok",
                    [bufs2 EXCEPT ![b].offset = new_offset, ![b].size = new_size],
                    StoreExt(ext, p, off, payload), c, <<>>)

\* OwningMemoryBuffer::write(ConstBuffer*)
write_cbuf(b) ==
    LET t == buf[b] IN
    IF ~t.owns_data THEN Unchanged("error")
    ELSE LET bytes_left_to_write == Sub(alloced_size(t), t.offset)
             bytes_left_to_read == Sub(cbuf.size, cbuf.offset)
             bytes_to_copy == Min(bytes_left_to_write, bytes_left_to_read)
             r == read(buf, ext, cbuf, bytes_to_copy)
             off2 == Add(t.offset, bytes_to_copy)
         IN  IF r.st # "ok" THEN Unchanged(r.st)
             ELSE StoreAt(buf, b, t.offset, r.bytes, off2, Max(off2, t.size), r.c)

\* OwningMemoryBuffer::write(ConstBuffer*, uint64_t)
write_cbuf_n(b, n) ==
    LET t == buf[b] IN
    IF ~t.owns_data THEN Unchanged("error")
    ELSE LET e == ensure_alloced_size(t, Add(t.offset, n), FreshId(buf, cbuf, b))
             bufs1 == [buf EXCEPT ![b] = e.b]
             r == read(bufs1, ext, cbuf, n)
             off2 == Add(t.offset, n)
         IN  IF e.st # "ok" THEN Unchanged(e.st)
             ELSE IF r.st # "ok" THEN Result(r.st, bufs1, ext, cbuf, <<>>)
             ELSE StoreAt(bufs1, b, t.offset, r.bytes, off2, Max(off2, t.size), r.c)

\* write(raw, n) as it would be without its check of owns_data_.
write_raw_Unchecked(b, n, val) ==
    LET t == buf[b]
        e == ensure_alloced_size(t, Add(t.offset, n), FreshId(buf, cbuf, b))
        bufs1 == [buf EXCEPT ![b] = e.b]
        off2 == Add(t.offset, n)
    IN  IF e.st # "ok" THEN Unchanged(e.st)
        ELSE StoreAt(bufs1, b, t.offset, Fill(n, val), off2, Max(off2, t.size), cbuf)

\* OwningMemoryBuffer::write(const void*, uint64_t); the n bytes written are val.
write_raw(b, n, val) ==
    LET t == buf[b] IN
    IF ~t.owns_data THEN Unchanged("error")
    ELSE LET e == ensure_alloced_size(t, Add(t.offset, n), FreshId(buf, cbuf, b))
             bufs1 == [buf EXCEPT ![b] = e.b]
             off2 == Add(t.offset, n)
         IN  IF e.st # "ok" THEN Unchanged(e.st)
             ELSE StoreAt(bufs1, b, t.offset, Fill(n, val), off2, Max(off2, t.size), cbuf)

\* OwningMemoryBuffer::write(const void*, uint64_t offset, uint64_t)
write_raw_at(b, off, n, val) ==
    LET t == buf[b] IN
    IF ~t.owns_data THEN Unchanged("error")
    ELSE LET e == ensure_alloced_size(t, Add(off, n), FreshId(buf, cbuf, b))
             bufs1 == [buf EXCEPT ![b] = e.b]
         IN  IF e.st # "ok" THEN Unchanged(e.st)
             ELSE StoreAt(bufs1, b, off, Fill(n, val), t.offset,
                          Max(Add(off, n), t.size), cbuf)

\* The BufferBase operations, called on instance b.
set_offset_call(b, o) ==
    LET r == set_offset(buf[b], o) IN Result(r.st, [buf EXCEPT ![b] = r.c], ext, cbuf, <<>>)
advance_offset_call(b, n) ==
    Result("ok", [buf EXCEPT ![b] = advance_offset(buf[b], n)], ext, cbuf, <<>>)
reset_offset_call(b) ==
    Result("ok", [buf EXCEPT ![b] = reset_offset(buf[b])], ext, cbuf, <<>>)
read_call(b, n) ==
    LET r == read(buf, ext, buf[b], n)
    IN  Result(r.st, [buf EXCEPT ![b] = r.c], ext, cbuf, r.bytes)
read_at_call(b, off, n) ==
    LET r == read_at(buf, ext, buf[b], off, n)
    IN  Result(r.st, [buf EXCEPT ![b] = r.c], ext, cbuf, r.bytes)

\* OwningMemoryBuffer(const OwningMemoryBuffer&, const allocator_type&): vec_ is
\* a copy of the source's vector in storage of its own, drawn from allocator a.
copy_ctor_alloc(b, src, a) ==
    LET s == buf[src]
        v == [id |-> IF Len(s.vec.bytes) = 0 THEN NULL ELSE FreshId(buf, cbuf, b),
              bytes |-> s.vec.bytes, cap |-> Len(s.vec.bytes), alloc |-> a]
        rebase == s.owns_data /\ s.data # NULL
    IN  Result("ok",
               [buf EXCEPT ![b] = [live |-> TRUE,
                                   data |-> IF rebase THEN v.id ELSE NULL,
                                   size |-> IF rebase THEN s.size ELSE 0,
                                   offset |-> s.offset,
                                   vec |-> v,
                                   owns_data |-> s.owns_data,
                                   preallocated |-> s.preallocated]],
               ext, cbuf, <<>>)

\* OwningMemoryBuffer(const OwningMemoryBuffer&): the copy's allocator is the one
\* select_on_container_copy_construction gives, the default one.
copy_ctor(b, src) == copy_ctor_alloc(b, src, DefaultAlloc)

\* OwningMemoryBuffer(OwningMemoryBuffer&&): the vector's storage changes hands.
move_ctor(b, src) ==
    LET s == buf[src] IN
    Result("ok",
           [buf EXCEPT ![b] = [live |-> TRUE, data |-> s.data, size |-> s.size,
                               offset |-> s.offset, vec |-> s.vec,
                               owns_data |-> s.owns_data,
                               preallocated |-> s.preallocated],
                       ![src] = [s EXCEPT !.data = NULL, !.size = 0, !.offset = 0,
                                          !.vec = EmptyVec(s.vec.alloc)]],
           ext, cbuf, <<>>)

\* OwningMemoryBuffer(OwningMemoryBuffer&&, const allocator_type&).  With the
\* source's allocator the storage changes hands.  With another allocator the
\* elements are moved one by one into new storage, and the source's vector keeps
\* its storage: with its elements (kept) or cleared, as the library chooses.
move_ctor_alloc(b, src, a, kept) ==
    LET s == buf[src] IN
    IF a = s.vec.alloc THEN move_ctor(b, src)
    ELSE Result("ok",
                [buf EXCEPT ![b] = [live |-> TRUE, data |-> s.data, size |-> s.size,
                                    offset |-> s.offset,
                                    vec |-> [id |-> IF Len(s.vec.bytes) = 0 THEN NULL
                                                    ELSE FreshId(buf, cbuf, b),
                                             bytes |-> s.vec.bytes,
                                             cap |-> Len(s.vec.bytes), alloc |-> a],
                                    owns_data |-> s.owns_data,
                                    preallocated |-> s.preallocated],
                            ![src] = [s EXCEPT !.data = NULL, !.size = 0, !.offset = 0,
                                               !.vec.bytes = IF kept THEN @ ELSE <<>>]],
                ext, cbuf, <<>>)

\* OwningMemoryBuffer::swap.  std::swap of the vectors exchanges their storage
\* and leaves each vector its allocator (the allocators do not propagate on
\* swap); with unequal allocators that is undefined behaviour, which either
\* goes through as the exchange or faults.  The other members are exchanged.
swap(bufs, b, other, faults) ==
    LET x == bufs[b]
        y == bufs[other]
    IN  IF x.vec.alloc # y.vec.alloc /\ faults THEN Result("ub", bufs, ext, cbuf, <<>>)
        ELSE Result("ok",
                    [bufs EXCEPT ![b] = [y EXCEPT !.vec.alloc = x.vec.alloc],
                                 ![other] = [x EXCEPT !.vec.alloc = y.vec.alloc]],
                    ext, cbuf, <<>>)

\* OwningMemoryBuffer::operator=(OwningMemoryBuffer&&)
move_assign(b, src, faults) ==
    IF b = src THEN Unchanged("ok") ELSE swap(buf, b, src, faults)

\* OwningMemoryBuffer::operator=(const OwningMemoryBuffer&): clear(), then a
\* temporary copy of the source (whose allocation the allocator may refuse:
\* refused), then swap with the temporary, which is destroyed on return together
\* with the vector it took over.
copy_assign(b, src, refused, faults) ==
    IF b = src THEN Unchanged("ok")
    ELSE LET cleared == clear(b).buf
             s == cleared[src]
             allocates == Len(s.vec.bytes) > 0
             v == [id |-> IF allocates THEN FreshId(cleared, cbuf, NULL) ELSE NULL,
                   bytes |-> s.vec.bytes, cap |-> Len(s.vec.bytes), alloc |-> DefaultAlloc]
             rebase == s.owns_data /\ s.data # NULL
             tmp == [live |-> TRUE,
                     data |-> IF rebase THEN v.id ELSE NULL,
                     size |-> IF rebase THEN s.size ELSE 0,
                     offset |-> s.offset,
                     vec |-> v,
                     owns_data |-> s.owns_data,
                     preallocated |-> s.preallocated]
             t == cleared[b]
         IN  IF allocates /\ refused THEN Result("bad_alloc", cleared, ext, cbuf, <<>>)
             ELSE IF t.vec.alloc # tmp.vec.alloc /\ faults
             THEN Result("ub", cleared, ext, cbuf, <<>>)
             ELSE Result("ok",
                         [cleared EXCEPT ![b] = [tmp EXCEPT !.vec.alloc = t.vec.alloc]],
                         ext, cbuf, <<>>)

(***************************************************************************)
(* ConstBuffer                                                             *)
(***************************************************************************)
\* ConstBuffer(const void* data, uint64_t size)
cb_ctor(p, n) ==
    Result("ok", buf, ext, [live |-> TRUE, data |-> p, size |-> n, offset |-> 0], <<>>)

\* ConstBuffer::nbytes_left_to_read
nbytes_left_to_read(c) == Sub(c.size, c.offset)

cb_read(n) ==
    LET r == read(buf, ext, cbuf, n) IN Result(r.st, buf, ext, r.c, r.bytes)
cb_reset_offset == Result("ok", buf, ext, reset_offset(cbuf), <<>>)

(***************************************************************************)
(* PreallocatedBuffer                                                      *)
(***************************************************************************)
\* PreallocatedBuffer(const void* data, uint64_t size)
pb_ctor(p, n) == [live |-> TRUE, data |-> p, size |-> n, offset |-> 0]

\* PreallocatedBuffer::free_space
pb_free_space(c) == Sub(c.size, c.offset)

\* write as it would be without its test of the space left.
pb_write_Unchecked(c, e, n, val) ==
    IF ~InBounds(buf, e, c.data, c.offset, n) THEN [st |-> "ub", c |-> c, ext |-> e]
    ELSE [st |-> "ok", c |-> [c EXCEPT !.offset = Add(c.offset, n)],
          ext |-> StoreExt(e, c.data, c.offset, Fill(n, val))]

\* PreallocatedBuffer::write(const void*, uint64_t); the n bytes written are val.
pb_write(c, e, n, val) ==
    IF n > Sub(c.size, c.offset) THEN [st |-> "error", c |-> c, ext |-> e]
    ELSE IF ~InBounds(buf, e, c.data, c.offset, n) THEN [st |-> "ub", c |-> c, ext |-> e]
    ELSE [st |-> "ok", c |-> [c EXCEPT !.offset = Add(c.offset, n)],
          ext |-> StoreExt(e, c.data, c.offset, Fill(n, val))]

(***************************************************************************)
(* Calls as steps                                                          *)
(***************************************************************************)
Call(op, st, d) == [op |-> op, st |-> st, dst |-> d]

\* Nothing runs after undefined behaviour, an endless loop or a failed assertion.
Running == last.st \notin {"ub", "hang", "abort"}

\* A step: the call `op` whose outcome is r.
Outcome(op, r) ==
    /\ Running
    /\ buf' = r.buf
    /\ ext' = r.ext
    /\ cbuf' = r.cbuf
    /\ pbuf' = pbuf
    /\ last' = Call(op, r.st, r.dst)

\* Executions in which the allocator cannot meet a request are not followed.
Effect(op, r) == r.st # "bad_alloc" /\ Outcome(op, r)

Step(op, r) == Effect(op, r) /\ UNCHANGED <<written, grown>>

Live(b) == buf[b].live

Init ==
    /\ buf = [b \in Bufs |-> NoBuffer]
    /\ cbuf = NoCursor
    /\ pbuf = NoCursor
    /\ ext = ExtInit
    /\ last = Call("init", "ok", <<>>)
    /\ written = <<>>
    /\ grown = 0

\* Arguments that are positions or sizes: small ones and the largest one.
Positions == {0, 1, 2, MaxU}
\* Lengths of raw memory a caller can hold.
RawLens == 0 .. 2
\* Capacities a caller asks for.
Capacities == 0 .. MaxAlloc
\* Every numeric argument and every byte value the specifications draw.
Inputs == Positions \cup RawLens \cup Capacities
Values == {1, 2, 3}
\* The step is a call of op.
Called(op) == last'.op = op

CtorEmpty(b, a) == ~Live(b) /\ Step("ctor_empty", ctor_empty(b, a))
CtorPrealloc(b, n) == ~Live(b) /\ Step("ctor_prealloc", ctor_prealloc(b, n, DefaultAlloc))
CtorWrap(b) == ~Live(b) /\ Step("ctor_wrap", ctor_wrap(b, EXT, Len(ext)))
Dtor(b) == Live(b) /\ Step("dtor", dtor(b))
ResetOffset(b) == Live(b) /\ Step("reset_offset", reset_offset_call(b))
SetOffset(b, o) == Live(b) /\ Step("set_offset", set_offset_call(b, o))
AdvanceOffset(b, n) == Live(b) /\ Step("advance_offset", advance_offset_call(b, n))
Read(b, n) == Live(b) /\ Step("read", read_call(b, n))
ReadAt(b, off, n) == Live(b) /\ Step("read_at", read_at_call(b, off, n))
AdvanceSize(b, n) ==
    \E asserts \in BOOLEAN : Live(b) /\ Step("advance_size", advance_size(b, n, asserts))
Clear(b) == Live(b) /\ Step("clear", clear(b))
ResetSize(b) == Live(b) /\ Step("reset_size", reset_size(b))
SetSize(b, n) == Live(b) /\ Step("set_size", set_size(b, n))
Realloc(b, n) == Live(b) /\ Step("realloc", realloc_call(b, n))
EnsureAllocedSize(b, n) ==
    Live(b) /\ Step("ensure_alloced_size", ensure_alloced_size_call(b, n))
WriteCbuf(b) == Live(b) /\ cbuf.live /\ Step("write_cbuf", write_cbuf(b))
WriteCbufN(b, n) == Live(b) /\ cbuf.live /\ Step("write_cbuf_n", write_cbuf_n(b, n))
WriteRaw(b, n, val) == Live(b) /\ Step("write_raw", write_raw(b, n, val))
WriteRawAt(b, off, n, val) == Live(b) /\ Step("write_raw_at", write_raw_at(b, off, n, val))
CopyCtor(b, src) == ~Live(b) /\ Live(src) /\ Step("copy_ctor", copy_ctor(b, src))
CopyCtorAlloc(b, src, a) ==
    ~Live(b) /\ Live(src) /\ Step("copy_ctor_alloc", copy_ctor_alloc(b, src, a))
MoveCtor(b, src) == ~Live(b) /\ Live(src) /\ Step("move_ctor", move_ctor(b, src))
MoveCtorAlloc(b, src, a) ==
    \E kept \in BOOLEAN :
        ~Live(b) /\ Live(src) /\ Step("move_ctor_alloc", move_ctor_alloc(b, src, a, kept))
Swap(b, other) ==
    \E faults \in BOOLEAN :
        Live(b) /\ Live(other) /\ Step("swap", swap(buf, b, other, faults))
MoveAssign(b, src) ==
    \E faults \in BOOLEAN :
        Live(b) /\ Live(src) /\ Step("move_assign", move_assign(b, src, faults))
\* Copy assignment; here the execution in which the temporary's allocation is
\* refused is followed: std::bad_alloc leaves operator= and the program goes on.
CopyAssign(b, src) ==
    \E refused \in BOOLEAN, faults \in BOOLEAN :
        /\ Live(b) /\ Live(src)
        /\ Outcome("copy_assign", copy_assign(b, src, refused, faults))
        /\ UNCHANGED <<written, grown>>
\* write(raw, n), with the bytes it was given and the growth it caused recorded
WriteRawLogged(b, n, val) ==
    LET r == write_raw(b, n, val) IN
    /\ Live(b)
    /\ Effect("write_raw", r)
    /\ written' = IF r.st = "ok" THEN written \o Fill(n, val) ELSE written
    /\ grown' = IF alloced_size(r.buf[b]) # alloced_size(buf[b]) THEN grown + 1 ELSE grown
\* A call on the PreallocatedBuffer, which leaves every other object alone.
PbStep(op, st, c, e) ==
    /\ Running
    /\ pbuf' = c
    /\ ext' = e
    /\ last' = Call(op, st, <<>>)
    /\ UNCHANGED <<buf, cbuf, written, grown>>
PbCtor == ~pbuf.live /\ PbStep("pb_ctor", "ok", pb_ctor(EXT, Len(ext)), ext)
PbDtor == pbuf.live /\ PbStep("pb_dtor", "ok", NoCursor, ext)
PbWrite(n, val) ==
    LET r == pb_write(pbuf, ext, n, val)
    IN  pbuf.live /\ PbStep("pb_write", r.st, r.c, r.ext)
PbResetOffset == pbuf.live /\ PbStep("pb_reset_offset", "ok", reset_offset(pbuf), ext)
CbCtor == ~cbuf.live /\ Step("cb_ctor", cb_ctor(EXT, Len(ext)))
CbRead(n) == cbuf.live /\ Step("cb_read", cb_read(n))

(***************************************************************************)
(* Spec: one OwningMemoryBuffer and every call on it that needs no other   *)
(* object.                                                                 *)
(***************************************************************************)
Next ==
    \/ CtorEmpty(1, DefaultAlloc)
    \/ \E n \in Capacities : CtorPrealloc(1, n)
    \/ CtorWrap(1)
    \/ Dtor(1)
    \/ ResetOffset(1)
    \/ \E o \in Positions : SetOffset(1, o)
    \/ \E n \in Positions : AdvanceOffset(1, n)
    \/ \E n \in {1, 2, MaxU} : Read(1, n)
    \/ \E off \in Positions, n \in {1, MaxU} : ReadAt(1, off, n)
    \/ AdvanceSize(1, 1)
    \/ Clear(1)
    \/ ResetSize(1)
    \/ \E n \in Positions : SetSize(1, n)
    \/ \E n \in Capacities : Realloc(1, n)
    \/ \E n \in RawLens : WriteRaw(1, n, 1)
    \/ \E off \in Positions, n \in {1, 2} : WriteRawAt(1, off, n, 1)

Spec == Init /\ [][Next]_vars

(***************************************************************************)
(* Claims checked under Spec                                               *)
(***************************************************************************)
\* The calls that act on one instance and are no constructor, copy or move.
InstanceCalls ==
    {"write_cbuf", "write_cbuf_n", "write_raw", "write_raw_at", "realloc", "clear",
     "reset_size", "set_size", "advance_size"}

\* C1: in every reachable state every buffer of every kind has offset <= size.
C1_OffsetNeverExceedsSize ==
    /\ \A b \in Bufs : buf[b].live => buf[b].offset <= buf[b].size
    /\ cbuf.live => cbuf.offset <= cbuf.size
    /\ pbuf.live => pbuf.offset <= pbuf.size

\* C2: in every reachable state every owning buffer has size <= alloced_size(),
\* so the assertion of free_space() holds and free_space() is alloced_size() - size.
C2_SizeNeverExceedsAllocation ==
    \A b \in Bufs :
        (buf[b].live /\ buf[b].owns_data) =>
            /\ free_space_assertion(buf[b])
            /\ free_space(buf[b]) = alloced_size(buf[b]) - buf[b].size

\* C3: no call on an owning buffer whose preallocated flag is set changes its
\* alloced_size().
C3_PreallocatedCapacityNeverChanges ==
    [][\A b \in Bufs :
          (/\ buf[b].live /\ buf[b].owns_data /\ buf[b].preallocated
           /\ buf'[b].live /\ last'.op \in InstanceCalls)
          => alloced_size(buf'[b]) = alloced_size(buf[b])]_vars

\* C4: constructing an owning buffer preallocated to n bytes succeeds for every
\* n >= 0 and yields alloced_size() = n, size = 0, offset = 0, owns_data and
\* preallocated.
C4_PreallocatedConstruction ==
    [][\A b \in Bufs, n \in Inputs :
          (Called("ctor_prealloc") /\ CtorPrealloc(b, n)) =>
              /\ last'.st = "ok"
              /\ buf'[b].live
              /\ alloced_size(buf'[b]) = n
              /\ buf'[b].size = 0
              /\ buf'[b].offset = 0
              /\ buf'[b].owns_data
              /\ buf'[b].preallocated]_vars

\* The fatal buffer fault was raised and nothing was changed.
FaultedUnchanged == last'.st = "throw" /\ buf' = buf /\ ext' = ext /\ cbuf' = cbuf

\* C5: on an owning preallocated buffer, a write(raw, n), write(raw, at_offset, n)
\* or write(view, n) whose end position exceeds alloced_size() raises the fatal
\* fault and changes neither size, offset, alloced_size() nor the stored bytes.
C5_PreallocatedCeiling ==
    [][\A b \in Bufs, n \in Inputs, val \in Values :
          (buf[b].owns_data /\ buf[b].preallocated) =>
              /\ (/\ Called("write_raw") /\ WriteRaw(b, n, val)
                  /\ buf[b].offset + n > alloced_size(buf[b]))
                     => FaultedUnchanged
              /\ \A off \in Inputs :
                    (/\ Called("write_raw_at") /\ WriteRawAt(b, off, n, val)
                     /\ off + n > alloced_size(buf[b]))
                        => FaultedUnchanged
              /\ (/\ Called("write_cbuf_n") /\ WriteCbufN(b, n)
                  /\ buf[b].offset + n > alloced_size(buf[b]))
                     => FaultedUnchanged]_vars

\* C6: for a buffer with offset <= size, read(dst, n) with n > size - offset
\* returns the recoverable error, copies nothing and leaves offset alone; with
\* n <= size - offset it copies the bytes [offset, offset + n) and advances
\* offset by n.
C6_ReadBounds ==
    [][\A b \in Bufs, n \in Inputs :
          (Called("read") /\ Read(b, n) /\ buf[b].offset <= buf[b].size) =>
              IF n > buf[b].size - buf[b].offset
              THEN /\ last'.st = "error"
                   /\ last'.dst = <<>>
                   /\ buf'[b].offset = buf[b].offset
              ELSE /\ last'.st = "ok"
                   /\ last'.dst = Load(buf, ext, buf[b].data, buf[b].offset, n)
                   /\ buf'[b].offset = buf[b].offset + n]_vars

\* C7: read(dst, at_offset, n) returns success only if at_offset + n <= size,
\* otherwise it returns the recoverable error and copies nothing; the cursor
\* is unchanged either way.
C7_PositionalReadBounds ==
    [][\A b \in Bufs, off \in Inputs, n \in Inputs :
          (Called("read_at") /\ ReadAt(b, off, n)) =>
              /\ buf'[b].offset = buf[b].offset
              /\ IF off + n <= buf[b].size
                 THEN last'.st = "ok"
                 ELSE last'.st = "error" /\ last'.dst = <<>>]_vars

(***************************************************************************)
(* SpecWrite: an empty growable buffer and write(raw, n) calls             *)
(***************************************************************************)
NextWrite ==
    \/ \E a \in Allocs : CtorEmpty(1, a)
    \/ \E n \in 0 .. 3, val \in Values : WriteRawLogged(1, n, val)

SpecWrite == Init /\ [][NextWrite]_vars

\* C8: starting from an empty growable owning buffer, every write(raw, n) succeeds,
\* and afterwards size = offset = the number of bytes written so far and reading
\* size bytes from position 0 gives the payloads in the order they were written.
C8_WritesConcatenate ==
    Live(1) =>
        /\ last.st = "ok"
        /\ buf[1].size = Len(written)
        /\ buf[1].offset = Len(written)
        /\ read_at(buf, ext, buf[1], 0, buf[1].size).st = "ok"
        /\ read_at(buf, ext, buf[1], 0, buf[1].size).bytes = written

\* Three writes of distinct payloads, with the capacity grown from 1 to 2 to 4.
C8_Witness ==
    /\ last.op = "write_raw"
    /\ written = <<1, 2, 1>>
    /\ alloced_size(buf[1]) = 4

(***************************************************************************)
(* SpecView: one buffer, owning or wrapping the caller's memory, and a     *)
(* ConstBuffer to write from                                               *)
(***************************************************************************)
NextView ==
    \/ CtorEmpty(1, DefaultAlloc)
    \/ CtorWrap(1)
    \/ Dtor(1)
    \/ \E o \in {0, 1} : SetOffset(1, o)
    \/ \E n \in {0, 1, MaxAlloc} : Realloc(1, n)
    \/ CbCtor
    \/ \E n \in {1, 2} : CbRead(n)
    \/ WriteCbuf(1)
    \/ \E n \in RawLens : WriteCbufN(1, n)
    \/ \E n \in RawLens : WriteRaw(1, n, 3)
    \/ \E off \in {0, MaxU}, n \in RawLens : WriteRawAt(1, off, n, 3)

SpecView == Init /\ [][NextView]_vars

\* C9: on a buffer that does not own its data, each write overload and realloc
\* returns the recoverable error and changes nothing: not the buffer's data,
\* size and offset, not the wrapped bytes, not the source view's cursor.
C9_NonOwningRejectsWrites ==
    [][\A b \in Bufs :
          LET Refused == /\ last'.st = "error"
                         /\ buf' = buf
                         /\ ext' = ext
                         /\ cbuf' = cbuf
          IN  ~buf[b].owns_data =>
                /\ (Called("write_cbuf") /\ WriteCbuf(b)) => Refused
                /\ \A n \in Inputs :
                      (Called("write_cbuf_n") /\ WriteCbufN(b, n)) => Refused
                /\ \A n \in Inputs, val \in Values :
                      (Called("write_raw") /\ WriteRaw(b, n, val)) => Refused
                /\ \A off \in Inputs, n \in Inputs, val \in Values :
                      (Called("write_raw_at") /\ WriteRawAt(b, off, n, val)) => Refused
                /\ \A n \in Inputs :
                      (Called("realloc") /\ Realloc(b, n)) => Refused]_vars

\* A write from a view with unread bytes was refused by a buffer wrapping the
\* caller's memory.
C9_Witness ==
    /\ last.op = "write_cbuf_n"
    /\ last.st = "error"
    /\ buf[1].live /\ ~buf[1].owns_data /\ buf[1].data = EXT
    /\ cbuf.live /\ nbytes_left_to_read(cbuf) > 0

\* C19: for a ConstBuffer over a region of length L, nbytes_left_to_read() is
\* size - offset in every state and L right after construction; each successful
\* read(dst, n) lowers it by n; once it is 0, end() is true and every read of
\* n >= 1 bytes fails.
C19_ViewBytesLeft ==
    [][/\ cbuf'.live =>
             /\ nbytes_left_to_read(cbuf') = cbuf'.size - cbuf'.offset
             /\ nbytes_left_to_read(cbuf') = 0 => end(cbuf')
       /\ Called("cb_ctor") => nbytes_left_to_read(cbuf') = Len(ext)
       /\ \A n \in Inputs :
             (Called("cb_read") /\ CbRead(n)) =>
                 /\ last'.st \in {"ok", "error"}
                 /\ last'.st = "ok" =>
                       nbytes_left_to_read(cbuf') = nbytes_left_to_read(cbuf) - n
                 /\ last'.st = "error" => cbuf' = cbuf
                 /\ (nbytes_left_to_read(cbuf) = 0 /\ n >= 1) => last'.st = "error"]_vars

\* The whole region has been read (2 bytes, then 1) and a further read of 1
\* byte has failed.
C19_Witness ==
    /\ last.op = "cb_read"
    /\ last.st = "error"
    /\ cbuf.live
    /\ cbuf.size = Len(ext)
    /\ nbytes_left_to_read(cbuf) = 0
    /\ end(cbuf)

(***************************************************************************)
(* SpecTwo: two buffers, one constructed from the other                    *)
(***************************************************************************)
NextTwo ==
    \/ \E a \in Allocs : CtorEmpty(1, a)
    \/ CtorPrealloc(1, 0)
    \/ CtorWrap(1)
    \/ \E n \in {1, 2} : WriteRaw(1, n, 1)
    \/ \E o \in {0, 1} : SetOffset(1, o)
    \/ Clear(1)
    \/ \E b \in Bufs : Dtor(b)
    \/ \E b \in Bufs, src \in Bufs : CopyCtor(b, src)
    \/ \E b \in Bufs, src \in Bufs, a \in Allocs : CopyCtorAlloc(b, src, a)
    \/ \E b \in Bufs, src \in Bufs : MoveCtor(b, src)
    \/ \E b \in Bufs, src \in Bufs, a \in Allocs : MoveCtorAlloc(b, src, a)

SpecTwo == Init /\ [][NextTwo]_vars

\* The bytes a buffer holds: what its data() points to.
Contents(bufs, e, t) == Storage(bufs, e, t.data)

\* C10: move construction from an owning source, with or without an allocator,
\* leaves the source with size 0, offset 0 and null data, and gives the new buffer
\* the source's size, offset, owns_data, preallocated and bytes.
C10_MoveConstruction ==
    [][\A b \in Bufs, src \in Bufs, a \in Allocs :
          (/\ buf[src].owns_data
           /\ \/ Called("move_ctor") /\ MoveCtor(b, src)
              \/ Called("move_ctor_alloc") /\ MoveCtorAlloc(b, src, a))
          => /\ buf'[src].size = 0
             /\ buf'[src].offset = 0
             /\ buf'[src].data = NULL
             /\ buf'[b].size = buf[src].size
             /\ buf'[b].offset = buf[src].offset
             /\ buf'[b].owns_data = buf[src].owns_data
             /\ buf'[b].preallocated = buf[src].preallocated
             /\ Contents(buf', ext', buf'[b]) = Contents(buf, ext, buf[src])]_vars

\* C20: after every copy or move construction, with or without an allocator,
\* from a source that owns non-null data, the new buffer's data is the start of
\* the storage of its own vector and no address of storage the source holds.
C20_DataRebasedOnConstruction ==
    [][\A b \in Bufs, src \in Bufs, a \in Allocs :
          (/\ buf[src].owns_data /\ buf[src].data # NULL
           /\ \/ Called("copy_ctor") /\ CopyCtor(b, src)
              \/ Called("copy_ctor_alloc") /\ CopyCtorAlloc(b, src, a)
              \/ Called("move_ctor") /\ MoveCtor(b, src)
              \/ Called("move_ctor_alloc") /\ MoveCtorAlloc(b, src, a))
          => /\ buf'[b].data = buf'[b].vec.id
             /\ buf'[src].vec.id # NULL => buf'[b].data # buf'[src].vec.id]_vars

(***************************************************************************)
(* SpecAssign: two buffers with construction, copy, move, swap, assignment, *)
(* realloc and clear                                                       *)
(***************************************************************************)
NextAssign ==
    \/ \E a \in Allocs : CtorEmpty(1, a)
    \/ CtorEmpty(2, DefaultAlloc)
    \/ WriteRaw(1, 1, 1)
    \/ Realloc(2, 1)
    \/ \E b \in Bufs : Clear(b)
    \/ \E b \in Bufs : Dtor(b)
    \/ \E b \in Bufs, src \in Bufs : CopyCtor(b, src)
    \/ \E b \in Bufs, src \in Bufs : MoveCtor(b, src)
    \/ \E b \in Bufs, src \in Bufs, a \in Allocs : MoveCtorAlloc(b, src, a)
    \/ \E b \in Bufs, other \in Bufs : Swap(b, other)
    \/ \E b \in Bufs, src \in Bufs : MoveAssign(b, src)
    \/ \E b \in Bufs, src \in Bufs : CopyAssign(b, src)

SpecAssign == Init /\ [][NextAssign]_vars

\* C11: after the move assignment a = move(b) between two distinct owning
\* buffers, whatever a held, b has size 0, offset 0 and null data, and a holds
\* the bytes, the size and the offset b had.
C11_MoveAssignment ==
    [][\A a \in Bufs, b \in Bufs :
          (/\ a # b /\ buf[a].owns_data /\ buf[b].owns_data
           /\ Called("move_assign") /\ MoveAssign(a, b))
          => /\ buf'[b].size = 0
             /\ buf'[b].offset = 0
             /\ buf'[b].data = NULL
             /\ buf'[a].size = buf[b].size
             /\ buf'[a].offset = buf[b].offset
             /\ Contents(buf', ext', buf'[a]) = Contents(buf, ext, buf[b])]_vars

\* C13: in the copy assignment a = b (a distinct from b) nothing of a is changed
\* before the temporary copy of b is complete: when the allocation of the copy
\* fails, a is what it was before the call.
C13_CopyAssignmentKeepsTargetOnFailure ==
    [][\A a \in Bufs, b \in Bufs :
          (/\ a # b
           /\ Called("copy_assign") /\ CopyAssign(a, b)
           /\ last'.st = "bad_alloc")
          => /\ buf'[a] = buf[a]
             /\ Contents(buf', ext', buf'[a]) = Contents(buf, ext, buf[a])]_vars

\* C14: no two distinct instances that own their data have non-null data
\* referring to the same allocation.
C14_OneOwnerPerAllocation ==
    \A a \in Bufs, b \in Bufs :
        (/\ a # b
         /\ buf[a].live /\ buf[a].owns_data /\ buf[a].data # NULL
         /\ buf[b].live /\ buf[b].owns_data /\ buf[b].data # NULL)
        => buf[a].data # buf[b].data

(***************************************************************************)
(* SpecCopy: two buffers, each constructed, copied or moved from the other, *)
(* and the calls that change a buffer's content                            *)
(***************************************************************************)
NextCopy ==
    \/ \E a \in Allocs : CtorEmpty(1, a)
    \/ \E b \in Bufs : WriteRaw(b, 1, 1)
    \/ \E b \in Bufs : SetSize(b, 0)
    \/ \E b \in Bufs : Realloc(b, 1)
    \/ \E b \in Bufs : Clear(b)
    \/ \E b \in Bufs : Dtor(b)
    \/ \E b \in Bufs, src \in Bufs : CopyCtor(b, src)
    \/ \E b \in Bufs, src \in Bufs, a \in Allocs : CopyCtorAlloc(b, src, a)
    \/ \E b \in Bufs, src \in Bufs, a \in Allocs : MoveCtorAlloc(b, src, a)

SpecCopy == Init /\ [][NextCopy]_vars

\* Instances x and y own their data and each one's data is the start of the
\* storage of its own vector.
SeparatelyBacked(x, y) ==
    /\ x # y
    /\ buf[x].live /\ buf[x].owns_data /\ buf[x].data # NULL
    /\ buf[y].live /\ buf[y].owns_data /\ buf[y].data # NULL
    /\ buf[x].data = buf[x].vec.id
    /\ buf[y].data = buf[y].vec.id
    /\ buf[x].vec.id # buf[y].vec.id

\* C12: a copy constructed from an owning buffer with non-null data has the
\* source's size, offset, owns_data, preallocated and bytes, in an allocation of
\* its own; and a write, realloc, clear or set_size on one of two buffers that
\* are backed by separate allocations changes nothing of the other.
C12_CopyIndependence ==
    [][/\ \A b \in Bufs, src \in Bufs, a \in Allocs :
             (/\ buf[src].owns_data /\ buf[src].data # NULL
              /\ \/ Called("copy_ctor") /\ CopyCtor(b, src)
                 \/ Called("copy_ctor_alloc") /\ CopyCtorAlloc(b, src, a))
             => /\ buf'[b].size = buf[src].size
                /\ buf'[b].offset = buf[src].offset
                /\ buf'[b].owns_data = buf[src].owns_data
                /\ buf'[b].preallocated = buf[src].preallocated
                /\ Contents(buf', ext', buf'[b]) = Contents(buf, ext, buf[src])
                /\ buf'[b].data = buf'[b].vec.id
                /\ buf'[b].data \notin {buf'[src].data, buf'[src].vec.id}
                /\ buf'[src] = buf[src]
       /\ \A x \in Bufs, y \in Bufs :
             (/\ SeparatelyBacked(x, y)
              /\ \/ Called("write_raw") /\ \E n \in Inputs, val \in Values : WriteRaw(x, n, val)
                 \/ Called("realloc") /\ \E n \in Inputs : Realloc(x, n)
                 \/ Called("clear") /\ Clear(x)
                 \/ Called("set_size") /\ \E n \in Inputs : SetSize(x, n))
             => /\ buf'[y] = buf[y]
                /\ Contents(buf', ext', buf'[y]) = Contents(buf, ext, buf[y])]_vars

(***************************************************************************)
(* SpecFixed: a PreallocatedBuffer over the caller's memory                *)
(***************************************************************************)
NextFixed ==
    \/ PbCtor
    \/ PbDtor
    \/ \E n \in RawLens \cup {MaxU}, val \in Values : PbWrite(n, val)
    \/ PbResetOffset

SpecFixed == Init /\ [][NextFixed]_vars

\* C15: for a PreallocatedBuffer over a region of length S, size stays S and
\* free_space() is S - offset; write(raw, n) succeeds exactly when n <= S - offset
\* and then stores the n bytes at offset and advances offset by n; otherwise it
\* returns the error and leaves offset and the region's bytes unchanged.
C15_FixedBufferWrites ==
    [][/\ (pbuf.live /\ pbuf'.live) => pbuf'.size = pbuf.size
       /\ pbuf'.live =>
             /\ pbuf'.size = Len(ext')
             /\ pb_free_space(pbuf') = Len(ext') - pbuf'.offset
       /\ \A n \in Inputs, val \in Values :
             (Called("pb_write") /\ PbWrite(n, val)) =>
                 IF n <= Len(ext) - pbuf.offset
                 THEN /\ last'.st = "ok"
                      /\ pbuf'.offset = pbuf.offset + n
                      /\ SubSeq(ext', pbuf.offset + 1, pbuf.offset + n) = Fill(n, val)
                      /\ \A i \in 1 .. Len(ext) :
                            (i <= pbuf.offset \/ i > pbuf.offset + n) => ext'[i] = ext[i]
                 ELSE /\ last'.st = "error"
                      /\ pbuf'.offset = pbuf.offset
                      /\ ext' = ext]_vars

\* The region is full after a write of 2 and a write of 1 bytes, and a further
\* write of 1 byte has been refused.
C15_Witness ==
    /\ last.op = "pb_write"
    /\ last.st = "error"
    /\ pbuf.live
    /\ pb_free_space(pbuf) = 0
    /\ ext = <<3, 3, 2>>

(***************************************************************************)
(* SpecGrow: an empty growable buffer written one byte at a time           *)
(***************************************************************************)
NextGrow ==
    \/ \E a \in Allocs : CtorEmpty(1, a)
    \/ \E val \in Values : WriteRawLogged(1, 1, val)

SpecGrow == Init /\ [][NextGrow]_vars

\* The least e with 2^e >= k.
CeilLog2(k) ==
    CHOOSE e \in 0 .. WordBits :
        /\ 2 ^ e >= k
        /\ \A f \in 0 .. WordBits : 2 ^ f >= k => e <= f

\* C16: while k bytes are written one at a time into an initially empty growable
\* buffer, alloced_size() is at least the number of bytes written, and the number
\* of writes that changed the capacity is at most ceil(log2 k) + 1.
C16_GeometricGrowth ==
    Live(1) =>
        /\ alloced_size(buf[1]) >= Len(written)
        /\ Len(written) >= 1 => grown <= CeilLog2(Len(written)) + 1

\* Four bytes written; the capacity changed three times: 1, 2, 4.
C16_Witness ==
    /\ last.op = "write_raw"
    /\ Len(written) = 4
    /\ grown = 3
    /\ alloced_size(buf[1]) = 4

(***************************************************************************)
(* SpecCursor: one buffer and the calls that move its offset, with every   *)
(* value of uint64_t as argument                                           *)
(***************************************************************************)
NextCursor ==
    \/ CtorEmpty(1, DefaultAlloc)
    \/ CtorWrap(1)
    \/ Dtor(1)
    \/ WriteRaw(1, 1, 1)
    \/ \E n \in Positions : SetSize(1, n)
    \/ ResetOffset(1)
    \/ \E o \in Word : SetOffset(1, o)
    \/ \E n \in Word : AdvanceOffset(1, n)

SpecCursor == Init /\ [][NextCursor]_vars

\* C17: for a buffer with offset <= size and any n, after advance_offset(n) the
\* offset is min(old offset + n, size), the sum taken without wrap-around; it is
\* not less than before and not more than size; size and data are unchanged.
C17_AdvanceOffsetSaturates ==
    [][\A b \in Bufs, n \in Word :
          (/\ Called("advance_offset") /\ AdvanceOffset(b, n)
           /\ buf[b].offset <= buf[b].size)
          => /\ buf'[b].offset = Min(buf[b].offset + n, buf[b].size)
             /\ buf'[b].offset >= buf[b].offset
             /\ buf'[b].offset <= buf[b].size
             /\ buf'[b].size = buf[b].size
             /\ buf'[b].data = buf[b].data
             /\ buf'[b].vec = buf[b].vec]_vars

\* advance_offset has taken the offset of a 3-byte buffer to its end.
C17_Witness ==
    /\ last.op = "advance_offset"
    /\ buf[1].live
    /\ buf[1].size = 3
    /\ buf[1].offset = 3

\* C18: set_offset(o) with o > size raises the out-of-range fault and leaves
\* offset unchanged; with o <= size it sets offset to o; size and data are
\* unchanged in both cases.
C18_SetOffsetChecked ==
    [][\A b \in Bufs, o \in Word :
          (Called("set_offset") /\ SetOffset(b, o))
          => /\ IF o > buf[b].size
                THEN last'.st = "out_of_range" /\ buf'[b].offset = buf[b].offset
                ELSE last'.st = "ok" /\ buf'[b].offset = o
             /\ buf'[b].size = buf[b].size
             /\ buf'[b].data = buf[b].data
             /\ buf'[b].vec = buf[b].vec]_vars

\* set_offset was refused on a buffer of 2 bytes whose offset stays 1.
C18_Witness ==
    /\ last.op = "set_offset"
    /\ last.st = "out_of_range"
    /\ buf[1].live
    /\ buf[1].size = 2
    /\ buf[1].offset = 1

(***************************************************************************)
(* SpecEnsure: one growable buffer and ensure_alloced_size with every value *)
(* of uint64_t as argument                                                 *)
(***************************************************************************)
NextEnsure ==
    \/ CtorEmpty(1, DefaultAlloc)
    \/ Dtor(1)
    \/ \E val \in Values : WriteRaw(1, 1, val)
    \/ \E o \in {0, 1} : SetOffset(1, o)
    \/ \E n \in Capacities : Realloc(1, n)
    \/ Clear(1)
    \/ \E n \in Word : EnsureAllocedSize(1, n)

SpecEnsure == Init /\ [][NextEnsure]_vars

\* The least c * 2^j that is >= n, in unbounded arithmetic (c > 0).
LeastDoubling(c, n) ==
    LET reach == {c * 2 ^ j : j \in 0 .. WordBits}
    IN  CHOOSE m \in reach : m >= n /\ \A k \in reach : k >= n => m <= k

\* C21: ensure_alloced_size(n) on a growable owning buffer of capacity c changes
\* nothing when n <= c; otherwise the capacity becomes n when c = 0 and the
\* least c * 2^j >= n when c > 0, and size, offset and the first size bytes are
\* preserved.
C21_EnsureAllocedSize ==
    [][\A b \in Bufs, n \in Word :
          (/\ Called("ensure_alloced_size") /\ EnsureAllocedSize(b, n)
           /\ buf[b].owns_data /\ ~buf[b].preallocated)
          => LET c == alloced_size(buf[b]) IN
             IF n <= c
             THEN buf'[b] = buf[b]
             ELSE /\ alloced_size(buf'[b]) = IF c = 0 THEN n ELSE LeastDoubling(c, n)
                  /\ buf'[b].size = buf[b].size
                  /\ buf'[b].offset = buf[b].offset
                  /\ \A i \in 1 .. buf[b].size :
                        i <= Len(Contents(buf, ext, buf[b])) =>
                            /\ i <= Len(Contents(buf', ext', buf'[b]))
                            /\ Contents(buf', ext', buf'[b])[i] = Contents(buf, ext, buf[b])[i]]_vars

\* C22: ensure_alloced_size(n) terminates for every n and every capacity: the
\* doubling loop reaches a value >= n.
C22_EnsureAllocedSizeTerminates ==
    [][\A b \in Bufs, n \in Word :
          (Called("ensure_alloced_size") /\ EnsureAllocedSize(b, n))
          => last'.st # "hang"]_vars

(***************************************************************************)
(* SpecFill: one growable buffer filled from a ConstBuffer over the        *)
(* caller's memory                                                         *)
(***************************************************************************)
NextFill ==
    \/ CtorEmpty(1, DefaultAlloc)
    \/ Dtor(1)
    \/ \E n \in {1, 2} : Realloc(1, n)
    \/ \E n \in {0, 2} : SetSize(1, n)
    \/ \E o \in {0, 1} : SetOffset(1, o)
    \/ CbCtor
    \/ CbRead(1)
    \/ WriteCbuf(1)
    \/ \E n \in RawLens \cup {MaxAlloc} : WriteCbufN(1, n)

SpecFill == Init /\ [][NextFill]_vars

\* C23: write(view) on an owning buffer copies min(alloced_size() - offset,
\* view.nbytes_left_to_read()) bytes, advances the buffer's offset and the view's
\* offset by that number, sets size = max(offset, size), leaves alloced_size()
\* alone and returns success, also when unread bytes of the view did not fit.
C23_WriteViewNoGrow ==
    [][\A b \in Bufs :
          (Called("write_cbuf") /\ WriteCbuf(b) /\ buf[b].owns_data)
          => LET k == Min(alloced_size(buf[b]) - buf[b].offset,
                          cbuf.size - cbuf.offset)
             IN  /\ last'.st = "ok"
                 /\ buf'[b].offset = buf[b].offset + k
                 /\ cbuf'.offset = cbuf.offset + k
                 /\ buf'[b].size = Max(buf'[b].offset, buf[b].size)
                 /\ alloced_size(buf'[b]) = alloced_size(buf[b])
                 /\ Load(buf', ext', buf'[b].data, buf[b].offset, k)
                        = Load(buf, ext, cbuf.data, cbuf.offset, k)]_vars

\* C24: write(view, n) on a growable owning buffer: with fewer than n unread
\* bytes in the view it returns the recoverable error and leaves the buffer's
\* size, offset, alloced_size() and bytes and the view's offset unchanged; with
\* at least n it copies n bytes at offset, advances both cursors by n and sets
\* size = max(offset, size).
C24_WriteViewExact ==
    [][\A b \in Bufs, n \in Inputs :
          (/\ Called("write_cbuf_n") /\ WriteCbufN(b, n)
           /\ buf[b].owns_data /\ ~buf[b].preallocated)
          => IF cbuf.size - cbuf.offset < n
             THEN /\ last'.st = "error"
                  /\ buf'[b].size = buf[b].size
                  /\ buf'[b].offset = buf[b].offset
                  /\ alloced_size(buf'[b]) = alloced_size(buf[b])
                  /\ buf'[b].vec.bytes = buf[b].vec.bytes
                  /\ cbuf'.offset = cbuf.offset
             ELSE /\ last'.st = "ok"
                  /\ buf'[b].offset = buf[b].offset + n
                  /\ cbuf'.offset = cbuf.offset + n
                  /\ buf'[b].size = Max(buf'[b].offset, buf[b].size)
                  /\ Load(buf', ext', buf'[b].data, buf[b].offset, n)
                         = Load(buf, ext, cbuf.data, cbuf.offset, n)]_vars

(***************************************************************************)
(* The positional write, checked under Spec                                *)
(***************************************************************************)
\* C25: write(raw, at_offset, n) on a growable owning buffer leaves offset
\* unchanged, makes alloced_size() >= at_offset + n, sets size to
\* max(at_offset + n, old size), stores raw in the bytes [at_offset, at_offset + n)
\* and leaves every other byte written before unchanged.
C25_PositionalWrite ==
    [][\A b \in Bufs, off \in Inputs, n \in Inputs, val \in Values :
          (/\ Called("write_raw_at") /\ WriteRawAt(b, off, n, val)
           /\ buf[b].owns_data /\ ~buf[b].preallocated)
          => /\ last'.st = "ok"
             /\ buf'[b].offset = buf[b].offset
             /\ alloced_size(buf'[b]) >= off + n
             /\ buf'[b].size = Max(off + n, buf[b].size)
             /\ Load(buf', ext', buf'[b].data, off, n) = Fill(n, val)
             /\ \A i \in 1 .. Len(Contents(buf, ext, buf[b])) :
                   (i <= off \/ i > off + n) =>
                       /\ i <= Len(Contents(buf', ext', buf'[b]))
                       /\ Contents(buf', ext', buf'[b])[i] = Contents(buf, ext, buf[b])[i]]_vars
====
